---- MODULE Spec2Model ----
(***************************************************************************)
(* Hexagonal grid engine of N9.js: axial/odd-q conversion, the boundary    *)
(* folder wrap, the random-walk generator generate_random_walk, the world  *)
(* assembly generateWorld (take / take_while over the generator) and the   *)
(* occupancy lookup App.#fillAt.                                           *)
(*                                                                         *)
(* An axial coordinate [q, r] is the tuple <<q, r>>.  The occupancy map    *)
(* cells (a defaultdict of defaultdicts) is a function whose domain is the *)
(* set of stored key pairs <<outer, inner>>: cells[r][q] is the entry      *)
(* <<r, q>>.  An inner defaultdict is only ever created by an access that  *)
(* goes on to read or write one of its keys, so no outer key is stored     *)
(* without an inner one.                                                   *)
(***************************************************************************)
EXTENDS Integers, Sequences, FiniteSets

VARIABLES
    radius,     \* the region's radius (generateWorld's / wrap's argument)
    cells,      \* the occupancy map: stored key pair -> BOOLEAN
    stack,      \* generate_random_walk: the candidate-path stack
    at,         \* generate_random_walk: the current cell
    pc,         \* where the generator / its consumer stands
    n,          \* take's counter, in fifths (n = 0.4 * area = 2 * area / 5)
    emitted,    \* history: the cells yielded so far, in order
    fill,       \* App.#fillAt: the last lookup <<q, r, palette index>>
    fills,      \* number of fillAt lookups made
    arg,        \* pure functions: the input
    shift,      \* wrap: the lattice vector added to the input for the 2nd call
    cur,        \* wrap: the coordinate of the running (recursive) call
    prev,       \* wrap: the coordinate before the last fold
    res         \* pure functions: the results so far

vars == <<radius, cells, stack, at, pc, n, emitted, fill, fills,
          arg, shift, cur, prev, res>>

-----------------------------------------------------------------------------
(* Bounds of the model *)

MaxRadius == 2
MaxCoord == 3
MaxCoef == 1
MaxWalkRadius == 2
MaxPulls == 4
MaxWorldRadius == 1
MaxFills == 1

-----------------------------------------------------------------------------
(* util.mjs *)

Abs(x) == IF x < 0 THEN -x ELSE x

Max(a, b) == IF a >= b THEN a ELSE b

Range(s) == {s[i] : i \in 1..Len(s)}

\* add(a)(b): the pointwise sum of two pairs.
add(a, b) == <<a[1] + b[1], a[2] + b[2]>>

\* argmax(array): [index, value] of the first maximal element; the reduce
\* starts from [undefined, -Infinity], written <<0, 0>> with index 0 for
\* "undefined" (any element beats -Infinity).
RECURSIVE argmaxFrom(_, _, _)
argmaxFrom(array, i, max) ==
    IF i > Len(array) THEN max
    ELSE argmaxFrom(array, i + 1,
                    IF max[1] = 0 \/ array[i] > max[2]
                    THEN <<i, array[i]>> ELSE max)

argmax(array) == argmaxFrom(array, 1, <<0, 0>>)

\* max_by(array, key): key is the function applied to the elements.
max_by(array, key) ==
    LET keys == [i \in 1..Len(array) |-> key[array[i]]]
    IN  array[argmax(keys)[1]]

\* Mutant: the key is not negated.
min_by_unnegated(array, key) == max_by(array, key)

min_by(array, key) == max_by(array, [x \in DOMAIN key |-> -key[x]])

-----------------------------------------------------------------------------
(* hexagons.mjs: coordinates *)

directions ==
    << <<0, 1>>, <<0, -1>>, <<-1, 1>>, <<1, -1>>, <<1, 0>>, <<-1, 0>> >>

origin == <<0, 0>>

anticlockwise(qr) ==
    LET s == -qr[1] - qr[2]
    IN  <<-s, -qr[1]>>

\* range(t).reduce(anticlockwise, qr): anticlockwise applied t times.
RECURSIVE rotation(_, _)
rotation(qr, t) == IF t <= 0 THEN qr ELSE anticlockwise(rotation(qr, t - 1))

distance(A, B) ==
    LET As == -A[1] - A[2]
        Bs == -B[1] - B[2]
    IN  Max(Max(Abs(A[1] - B[1]), Abs(A[2] - B[2])), Abs(As - Bs))

area(r) == 3 * r * r + 3 * r + 1

\* Mutant: the base vector is [radius, radius].
centersShort(rad) == [t \in 1..6 |-> rotation(<<rad, rad>>, t - 1)]

\* The six region centres, range(6).map(t => rotation([radius, radius + 1], t)).
centers(rad) == [t \in 1..6 |-> rotation(<<rad, rad + 1>>, t - 1)]

\* The centre wrap folds through: the first one nearest to qr.
nearest(rad, qr) ==
    min_by(centers(rad), [k \in Range(centers(rad)) |-> distance(qr, k)])

\* One fold of wrap: the argument of the recursive call.
fold(rad, qr) ==
    LET k == nearest(rad, qr)
    IN  <<qr[1] - k[1], qr[2] - k[2]>>

\* Mutant: the region test is off by one.
insideLoose(rad, qr) == distance(qr, origin) <= rad + 1

inside(rad, qr) == distance(qr, origin) <= rad

RECURSIVE wrap(_, _)
wrap(rad, qr) == IF inside(rad, qr) THEN qr ELSE wrap(rad, fold(rad, qr))

-----------------------------------------------------------------------------
(* util.mjs: defaultdict and shuffled *)

EmptyMap == [k \in {} |-> FALSE]

\* Mutant: the factory's default is true.
vivifyTrue(m, keys) ==
    [k \in DOMAIN m \cup keys |-> IF k \in DOMAIN m THEN m[k] ELSE TRUE]

\* The handler's get trap on both levels, for the accesses m[outer][inner] of
\* every pair in keys: an absent key is stored with the factory's false.
vivify(m, keys) ==
    [k \in DOMAIN m \cup keys |-> IF k \in DOMAIN m THEN m[k] ELSE FALSE]

\* The value read by m[outer][inner].
lookup(m, outer, inner) ==
    IF <<outer, inner>> \in DOMAIN m THEN m[<<outer, inner>>] ELSE FALSE

\* m[outer][inner] = value: the get trap on the outer level, a plain store
\* on the inner one.
store(m, outer, inner, value) ==
    [k \in DOMAIN m \cup {<<outer, inner>>} |->
        IF k = <<outer, inner>> THEN value ELSE m[k]]

swap(array, i, j) ==
    [k \in 1..Len(array) |->
        IF k = i THEN array[j] ELSE IF k = j THEN array[i] ELSE array[k]]

\* shuffled(array) for the draws j = randint(i, array.length) of its loop,
\* i over range(array.length - 1) (here from 1).
RECURSIVE shuffleFrom(_, _, _)
shuffleFrom(array, draws, i) ==
    IF i > Len(array) - 1 THEN array
    ELSE shuffleFrom(swap(array, i, draws[i]), draws, i + 1)

shuffledWith(array, draws) == shuffleFrom(array, draws, 1)

\* randint(i, length) lies in i .. length - 1 (from 1: i .. length).
Draws(len) == {d \in [1..(len - 1) -> 1..len] : \A i \in 1..(len - 1) : d[i] >= i}

\* Every order shuffled(directions) can return.
Shuffles == {shuffledWith(directions, d) : d \in Draws(Len(directions))}

-----------------------------------------------------------------------------
(* Input sets *)

Coords == (-MaxCoord)..MaxCoord
Grid == Coords \X Coords
Region(rad) == {c \in ((-rad)..rad) \X ((-rad)..rad) : inside(rad, c)}

\* Integer combinations of the six centres, coefficients in 0..MaxCoef (the
\* centres come in opposite pairs, so these span both signs).
Coefs == [1..6 -> 0..MaxCoef]

RECURSIVE combination(_, _, _)
combination(rad, coef, t) ==
    IF t = 0 THEN origin
    ELSE LET k == centers(rad)[t]
             rest == combination(rad, coef, t - 1)
         IN  <<rest[1] + coef[t] * k[1], rest[2] + coef[t] * k[2]>>

Idle ==
    /\ cells = EmptyMap
    /\ stack = <<>>
    /\ at = origin
    /\ emitted = <<>>
    /\ fill = <<>>
    /\ fills = 0

NoPure ==
    /\ arg = origin
    /\ shift = origin
    /\ cur = origin
    /\ prev = origin
    /\ res = <<>>

-----------------------------------------------------------------------------
(* wrap as a machine: wrap(radius)(arg), then wrap(radius)(arg + shift);   *)
(* each recursive call is a step.                                          *)

InitWrap ==
    /\ Idle
    /\ radius \in 0..MaxRadius
    /\ arg \in Grid
    /\ \E coef \in Coefs : shift = combination(radius, coef, 6)
    /\ cur = arg
    /\ prev = arg
    /\ res = <<>>
    /\ n = 0
    /\ pc = "wrap"

\* if (distance([q, r])([0, 0]) <= radius) return [q, r];
WrapReturn ==
    /\ pc = "wrap"
    /\ inside(radius, cur)
    /\ res' = Append(res, cur)
    /\ IF Len(res) = 0
       THEN /\ cur' = add(arg, shift)
            /\ prev' = add(arg, shift)
            /\ pc' = "wrap"
       ELSE /\ pc' = "wrapped"
            /\ UNCHANGED <<cur, prev>>
    /\ UNCHANGED <<radius, cells, stack, at, n, emitted, fill, fills, arg, shift>>

\* return wrap([q - dq, r - dr]);
WrapFold ==
    /\ pc = "wrap"
    /\ ~inside(radius, cur)
    /\ prev' = cur
    /\ cur' = fold(radius, cur)
    /\ UNCHANGED <<radius, cells, stack, at, pc, n, emitted, fill, fills,
                   arg, shift, res>>

NextWrap == WrapReturn \/ WrapFold

SpecWrap == InitWrap /\ [][NextWrap]_vars

-----------------------------------------------------------------------------
(* hexagons.mjs: generate_random_walk                                      *)
(* pc = "ready": the generator is suspended (at its start, or at yield     *)
(* with the consumer's loop body done) and the consumer is about to ask    *)
(* for the next element; "yielded": it is suspended at yield at and the    *)
(* consumer holds the element; "done": it returned.                        *)

\* The radii the walk runs with; the cells up to one step outside a region
\* and those fillAt is asked about.
WalkRadii == 0..Max(MaxWalkRadius, MaxWorldRadius)
Steps(rad) ==
    LET m == Max(rad + 1, MaxCoord)
    IN  ((-m)..m) \X ((-m)..m)

\* wrap(radius), tabulated once over the cells the walk and fillAt pass it.
Wraps ==
    CHOOSE table \in {[p \in UNION {{<<rad, c>> : c \in Steps(rad)} : rad \in WalkRadii}
                          |-> wrap(p[1], p[2])]} :
        table = table

\* Mutant: the step is not folded into the region.
candidateUnwrapped(rad, from, direction) == add(from, direction)

\* The cell the walk tests for a direction: wrap_(add(at)(direction)).
candidate(rad, from, direction) == Wraps[<<rad, add(from, direction)>>]

\* Mutant: the test reads cells[q][r].
unoccupiedTransposed(m, cell) == lookup(m, cell[1], cell[2]) = FALSE

\* cells[r][q] === false, for the cell [q, r].
unoccupied(m, cell) == lookup(m, cell[2], cell[1]) = FALSE

\* The directions whose candidate is unoccupied.
free(rad, m, from) ==
    {d \in Range(directions) : unoccupied(m, candidate(rad, from, d))}

\* The keys the test cells[r][q] touches for the candidates of directions ds.
tested(rad, from, ds) ==
    {<<candidate(rad, from, d)[2], candidate(rad, from, d)[1]>> : d \in ds}

\* for (const direction of order): the index of the first direction whose
\* candidate is unoccupied (unocc holds those directions), 0 when the loop
\* runs to its end.
RECURSIVE firstFree(_, _, _)
firstFree(order, unocc, i) ==
    IF i > Len(order) THEN 0
    ELSE IF order[i] \in unocc THEN i
    ELSE firstFree(order, unocc, i + 1)

\* What one pass of the for loop does under an order: the directions whose
\* candidates it tested, and the direction it stepped in (<<>>: none).
scan(order, unocc) ==
    LET i == firstFree(order, unocc, 1)
    IN  [tested |-> {order[j] : j \in 1..(IF i = 0 THEN Len(order) ELSE i)},
         chosen |-> IF i = 0 THEN <<>> ELSE order[i]]

\* The passes the shuffle allows, per set of unoccupied directions.
Scans ==
    CHOOSE table \in {[unocc \in SUBSET Range(directions) |->
                          {scan(order, unocc) : order \in Shuffles}]} :
        table = table

\* The iterations of the while loop that find every candidate occupied:
\* each tests all six and ends in at = stack.pop().  Gives the generator's
\* state at the first iteration that finds the stack empty or a free cell.
RECURSIVE unwind(_, _, _, _)
unwind(rad, m, stk, from) ==
    IF Len(stk) = 0 \/ free(rad, m, from) # {}
    THEN [cells |-> m, stack |-> stk, at |-> from]
    ELSE unwind(rad, vivify(m, tested(rad, from, Range(directions))),
                SubSeq(stk, 1, Len(stk) - 1), stk[Len(stk)])

\* The effect of a pass that steps: the map after its tests and the cell
\* [q, r] it pushes and yields.
pass(rad, m, from, p) ==
    [cells |-> vivify(m, tested(rad, from, p.tested)),
     qr |-> candidate(rad, from, p.chosen)]

\* The consumer's iterator.next(): the generator runs from where it is
\* suspended to its next yield, or to its end.
Pull ==
    /\ pc = "ready"
    /\ LET u == unwind(radius, cells, stack, at)
       IN  IF Len(u.stack) = 0
           THEN /\ cells' = u.cells
                /\ stack' = u.stack
                /\ at' = u.at
                /\ pc' = "done"
                /\ UNCHANGED emitted
           ELSE \E step \in {pass(radius, u.cells, u.at, p) :
                                  p \in Scans[free(radius, u.cells, u.at)]} :
                  /\ cells' = step.cells
                  /\ stack' = Append(u.stack, step.qr)
                  /\ at' = step.qr
                  /\ emitted' = Append(emitted, step.qr)
                  /\ pc' = "yielded"
    /\ UNCHANGED <<radius, n, fill, fills, arg, shift, cur, prev, res>>

\* Mutant: the consumer writes cells[q][r].
consumeTransposed(limit) ==
    /\ pc = "yielded"
    /\ cells' = store(cells, at[1], at[2], TRUE)
    /\ pc' = IF Len(emitted) < limit THEN "ready" ELSE "stopped"
    /\ UNCHANGED <<radius, stack, at, n, emitted, fill, fills,
                   arg, shift, cur, prev, res>>

\* The consumer's loop body, cells[r][q] = true for the yielded [q, r]; it
\* goes on to pull while it has taken fewer than limit elements.
consume(limit) ==
    /\ pc = "yielded"
    /\ cells' = store(cells, at[2], at[1], TRUE)
    /\ pc' = IF Len(emitted) < limit THEN "ready" ELSE "stopped"
    /\ UNCHANGED <<radius, stack, at, n, emitted, fill, fills,
                   arg, shift, cur, prev, res>>

\* generate_random_walk(seed, cells, rad) created on an empty map.
started(rad, seed) ==
    /\ radius = rad
    /\ cells = EmptyMap
    /\ at = seed
    /\ stack = <<seed>>
    /\ emitted = <<>>
    /\ pc = "ready"
    /\ fill = <<>>
    /\ fills = 0

(* A consumer of generate_random_walk([0, 0], cells, radius) that marks each *)
(* yielded cell and stops after at most MaxPulls elements.                   *)

InitWalk ==
    /\ \E rad \in 0..MaxWalkRadius : started(rad, origin)
    /\ n = 0
    /\ NoPure

ConsumerMark == consume(MaxPulls)

NextWalk == Pull \/ ConsumerMark

SpecWalk == InitWalk /\ [][NextWalk]_vars

(* A consumer that pulls until the generator returns, from any seed of the *)
(* region.                                                                 *)

ExhaustiveRadii == {0, 1}

InitExhaust ==
    /\ \E rad \in ExhaustiveRadii : \E seed \in Region(rad) : started(rad, seed)
    /\ n = 0
    /\ NoPure

ConsumerMarkAll == consume(area(radius) + 1)

NextExhaust == Pull \/ ConsumerMarkAll

SpecExhaust == InitExhaust /\ [][NextExhaust]_vars

-----------------------------------------------------------------------------
(* app.mjs: generateWorld and App.#fillAt                                  *)

\* generateWorld(rad) at its for loop: steps = 0.4 * area(rad), held in
\* fifths, the generator created over the empty cells.
InitWorld ==
    /\ \E rad \in 0..MaxWorldRadius : started(rad, origin)
    /\ n = 2 * area(radius)
    /\ NoPure

\* Mutant: take's predicate is --n > 0.
TakeWhilePreDecrement ==
    /\ pc = "yielded"
    /\ n' = n - 5
    /\ IF n - 5 > 0
       THEN /\ cells' = store(cells, at[2], at[1], TRUE)
            /\ pc' = "ready"
       ELSE /\ pc' = "broken"
            /\ UNCHANGED cells
    /\ UNCHANGED <<radius, stack, at, emitted, fill, fills, arg, shift, cur, prev, res>>

\* take_while over take's predicate n-- > 0, with generateWorld's loop body:
\* the pulled element is passed on and marked, cells[r][q] = true, or the
\* loop breaks and the generator is closed ("broken").
TakeWhile ==
    /\ pc = "yielded"
    /\ n' = n - 5
    /\ IF n > 0
       THEN /\ cells' = store(cells, at[2], at[1], TRUE)
            /\ pc' = "ready"
       ELSE /\ pc' = "broken"
            /\ UNCHANGED cells
    /\ UNCHANGED <<radius, stack, at, emitted, fill, fills, arg, shift, cur, prev, res>>

NextWorld == Pull \/ TakeWhile

SpecWorld == InitWorld /\ [][NextWorld]_vars

\* generateWorld has returned cells (the generator ended or was closed).
built == pc \in {"done", "broken"}

\* App.#fillAt({q, r}): the palette index this.state.cells[q_][r_] | 0 of
\* the folded cell, read through the defaultdict.
FillAt ==
    /\ built
    /\ fills < MaxFills
    /\ \E qr \in Grid :
         LET w == Wraps[<<radius, qr>>]
         IN  /\ fill' = <<qr[1], qr[2], IF lookup(cells, w[1], w[2]) THEN 1 ELSE 0>>
             /\ cells' = vivify(cells, {<<w[1], w[2]>>})
    /\ fills' = fills + 1
    /\ UNCHANGED <<radius, stack, at, pc, n, emitted, arg, shift, cur, prev, res>>

NextApp == Pull \/ TakeWhile \/ FillAt

SpecApp == InitWorld /\ [][NextApp]_vars

-----------------------------------------------------------------------------
(* hexagons.mjs: odd-q offset coordinates *)

\* x >> 1 on a 32-bit integer: the sign-propagating shift.
shr1(x) == IF x >= 0 THEN x \div 2 ELSE -((1 - x) \div 2)

\* Mutant: the correction is added, as in axial_to_odd_q.
odd_q_to_axial_added(xy) == <<xy[1], xy[2] + shr1(xy[1])>>

odd_q_to_axial(xy) == <<xy[1], xy[2] - shr1(xy[1])>>

axial_to_odd_q(xy) == <<xy[1], xy[2] + shr1(xy[1])>>

InitOddQ ==
    /\ Idle
    /\ radius = 0
    /\ arg \in Grid
    /\ shift = origin
    /\ cur = origin
    /\ prev = origin
    /\ res = <<>>
    /\ n = 0
    /\ pc = "convert"

\* odd_q_to_axial(axial_to_odd_q(arg))
AxialRoundTrip ==
    /\ pc = "convert"
    /\ res' = <<axial_to_odd_q(arg), odd_q_to_axial(axial_to_odd_q(arg))>>
    /\ pc' = "axial"
    /\ UNCHANGED <<radius, cells, stack, at, n, emitted, fill, fills,
                   arg, shift, cur, prev>>

\* axial_to_odd_q(odd_q_to_axial(arg))
OffsetRoundTrip ==
    /\ pc = "convert"
    /\ res' = <<odd_q_to_axial(arg), axial_to_odd_q(odd_q_to_axial(arg))>>
    /\ pc' = "offset"
    /\ UNCHANGED <<radius, cells, stack, at, n, emitted, fill, fills,
                   arg, shift, cur, prev>>

NextOddQ == AxialRoundTrip \/ OffsetRoundTrip

SpecOddQ == InitOddQ /\ [][NextOddQ]_vars

(* wrap's calls together with the walk that uses them. *)

SpecFold == (InitWrap \/ InitWalk) /\ [][NextWrap \/ NextWalk]_vars

-----------------------------------------------------------------------------
(* Properties *)

\* The cells [q, r] marked open: cells[r][q] is true.
Open == {<<k[2], k[1]>> : k \in {k \in DOMAIN cells : cells[k] = TRUE}}

\* Hex distance of a cell from the origin, (|q| + |r| + |q + r|) / 2.
HexDist(c) == (Abs(c[1]) + Abs(c[2]) + Abs(c[1] + c[2])) \div 2

NoRepeat(seq) == \A i, j \in 1..Len(seq) : i # j => seq[i] # seq[j]

\* Cells that differ by one of the six direction vectors.
hexNeighbours(c) == {<<c[1] + d[1], c[2] + d[2]>> : d \in Range(directions)}

\* Neighbours on the folded region: wrap(radius)(c + d).
foldedNeighbours(c) ==
    {Wraps[<<radius, <<c[1] + d[1], c[2] + d[2]>> >>] : d \in Range(directions)}

\* The cells reached from seen along paths of open cells, hex-adjacent.
RECURSIVE hexReach(_, _)
hexReach(seen, open) ==
    LET next == seen \cup {c \in open : \E s \in seen : c \in hexNeighbours(s)}
    IN  IF next = seen THEN seen ELSE hexReach(next, open)

\* The same, adjacent on the folded region.
RECURSIVE foldedReach(_, _)
foldedReach(seen, open) ==
    LET next == seen \cup {c \in open : \E s \in seen : c \in foldedNeighbours(s)}
    IN  IF next = seen THEN seen ELSE foldedReach(next, open)

\* C1 (as stated): every open cell is reachable from the origin along a path
\* of open cells whose consecutive cells differ by a direction vector.
C1_HexConnected == Open \subseteq hexReach({origin}, Open)

\* C1 (amended): every open cell is reachable from the origin (open or not)
\* along a path of open cells whose consecutive cells are adjacent on the
\* folded region, b = wrap(radius)(a + d) for a direction d.
C1_FoldedConnected == Open \subseteq foldedReach({origin}, Open)

\* A walk that has entered an open cell through the region's boundary.
C1_Witness ==
    /\ pc = "ready"
    /\ \E i \in 1..(Len(emitted) - 1) :
         /\ emitted[i + 1] \notin hexNeighbours(emitted[i])
         /\ emitted[i + 1] \in Open

\* C2: a yielded cell is not open when it is yielded, no cell is yielded
\* twice, and with every yielded cell marked the open cells are exactly the
\* yielded ones, one per pull.
C2_NewlyOpened ==
    /\ NoRepeat(emitted)
    /\ pc = "yielded" =>
         /\ emitted[Len(emitted)] \notin Open
         /\ Cardinality(Open) = Len(emitted) - 1
    /\ pc # "yielded" =>
         /\ Open = Range(emitted)
         /\ Cardinality(Open) = Len(emitted)

C2_Witness == pc = "ready" /\ radius = 2 /\ Cardinality(Open) = 3

\* C3: every result of wrap(radius) lies within hex distance radius of the
\* origin, and so does every cell the walk yields.
C3_WrapInside ==
    /\ \A i \in 1..Len(res) : HexDist(res[i]) <= radius
    /\ \A i \in 1..Len(emitted) : HexDist(emitted[i]) <= radius

C3_Witness ==
    /\ pc = "wrapped"
    /\ radius = 1
    /\ arg = <<3, 3>>
    /\ HexDist(res[1]) <= 1

\* C4: wrap(radius) gives c and c + k the same result for every combination
\* k of the six centres, leaves in-region cells alone and is idempotent.
C4_UniqueRepresentative ==
    pc = "wrapped" =>
        /\ res[2] = res[1]
        /\ HexDist(arg) <= radius => res[1] = arg
        /\ wrap(radius, res[1]) = res[1]

C4_Witness ==
    /\ pc = "wrapped"
    /\ radius = 2
    /\ shift # origin
    /\ HexDist(arg) > radius
    /\ res[2] = res[1]

\* C5 (as stated): generateWorld leaves floor(0.4 * area) cells open.
C5_FloorBudget ==
    built => Cardinality(Open) = (2 * (3 * radius * radius + 3 * radius + 1)) \div 5

\* C5 (amended): generateWorld leaves ceil(0.4 * area) cells open, one more
\* than the floor; for radius 0 that is the origin alone.
C5_CeilBudget ==
    built =>
        /\ Cardinality(Open) =
             (2 * (3 * radius * radius + 3 * radius + 1) + 4) \div 5
        /\ Cardinality(Open) =
             (2 * (3 * radius * radius + 3 * radius + 1)) \div 5 + 1
        /\ radius = 0 => Open = {origin}

C5_Witness == pc = "broken" /\ radius = 1 /\ Cardinality(Open) = 3

\* C6 (as stated): a pull leaves the occupancy map as it was, keys and values.
C6_PullLeavesMap == [][pc = "ready" => cells' = cells]_vars

\* C6 (amended): a pull changes no stored value and opens no cell; the keys
\* it adds hold false.  The open cells change only by the consumer's write.
C6_PullOpensNothing ==
    [][/\ pc = "ready" =>
            /\ DOMAIN cells \subseteq DOMAIN cells'
            /\ \A k \in DOMAIN cells : cells'[k] = cells[k]
            /\ \A k \in DOMAIN cells' \ DOMAIN cells : cells'[k] = FALSE
       /\ Open' # Open => pc = "yielded"]_vars

\* A pull has stored the key of the cell it yields, with false.
C6_Witness ==
    /\ pc = "yielded"
    /\ <<at[2], at[1]>> \in DOMAIN cells
    /\ cells[<<at[2], at[1]>>] = FALSE

\* C7: both round trips between axial and odd-q coordinates are the
\* identity, the column correction is floor(x / 2), and axial (2, -1) is
\* offset (2, 0).
C7_OddQBijection ==
    /\ pc = "axial" =>
         /\ res[1] = <<arg[1], arg[2] + (arg[1] \div 2)>>
         /\ res[2] = arg
         /\ arg = <<2, -1>> => res[1] = <<2, 0>>
    /\ pc = "offset" =>
         /\ res[1] = <<arg[1], arg[2] - (arg[1] \div 2)>>
         /\ res[2] = arg
         /\ arg = <<2, 0>> => res[1] = <<2, -1>>

C7_Witness == pc = "axial" /\ arg = <<-3, 1>> /\ res = << <<-3, -1>>, <<-3, 1>> >>

\* C8: fillAt gives the open palette index exactly for the cells whose
\* folded cell generateWorld marked open.
C8_FillAgrees ==
    fill # <<>> =>
        ((fill[3] = 1) <=> (Wraps[<<radius, <<fill[1], fill[2]>> >>] \in Open))

\* C9: a fold of wrap goes through the first centre nearest to the cell and
\* strictly decreases the hex distance to the origin.
C9_FoldDescends ==
    [][(pc = "wrap" /\ HexDist(cur) > radius) =>
          LET k == <<cur[1] - cur'[1], cur[2] - cur'[2]>>
              far(c) == HexDist(<<cur[1] - c[1], cur[2] - c[2]>>)
          IN  /\ \E t \in 1..6 :
                   /\ centers(radius)[t] = k
                   /\ \A u \in 1..6 : far(centers(radius)[u]) >= far(k)
                   /\ \A u \in 1..(t - 1) : far(centers(radius)[u]) > far(k)
              /\ HexDist(cur') < HexDist(cur)]_vars

\* A second fold of one call.
C9_Witness ==
    /\ pc = "wrap"
    /\ HexDist(arg) > HexDist(prev)
    /\ HexDist(prev) > HexDist(cur)
    /\ Len(res) = 0

\* The steps taken so far, counted from the state: two per yielded cell.
Progress ==
    2 * Len(emitted) + (IF pc = "ready" THEN 1 ELSE IF pc = "done" THEN 2 ELSE 0)

\* Until the generator has returned a step is possible: the consumer holds
\* an element to mark, or the pull finds the stack empty or a pass to make.
CanStep ==
    /\ pc \in {"ready", "yielded", "done"}
    /\ pc = "ready" =>
         LET u == unwind(radius, cells, stack, at)
         IN  Len(u.stack) = 0 \/ Scans[free(radius, u.cells, u.at)] # {}

\* C10: the exhaustive run ends, having yielded every cell of the region
\* exactly once, the seed included: it never yields a cell twice or one
\* outside the region, every step advances a count that the region's size
\* bounds, and it cannot stop before the generator has returned.
C10_Covered ==
    /\ pc = "done" =>
         /\ Len(stack) = 0
         /\ Range(emitted) = Region(radius)
         /\ Len(emitted) = 3 * radius * radius + 3 * radius + 1
    /\ NoRepeat(emitted)
    /\ Range(emitted) \subseteq Region(radius)
    /\ Progress <= 2 * (3 * radius * radius + 3 * radius + 1) + 2

====
